---- MODULE Spec2Model ----
(***************************************************************************)
(* Model of internal/provider/reservation_data_source.go: the azureipam    *)
(* "reservation" data source.  Read looks a reservation id up in an        *)
(* ordered list of blocks, one GetReservation call per list position, and  *)
(* writes the first match to the response state.                           *)
(*                                                                         *)
(* Strings are sequences of tokens (words), so that strings.Contains and   *)
(* fmt.Sprintf are computed and not assumed.  A Go pointer or error is the *)
(* empty sequence (nil) or a one-element sequence holding the value.       *)
(* Every invocation of Read has its own locals and its own response; the   *)
(* only field of the data source is the client handle.                     *)
(***************************************************************************)
EXTENDS Integers, Sequences, FiniteSets, TLC

\* Longest blocks list a configuration holds.
MaxBlocks == 3
\* Longest blocks list of the configurations used for concurrent lookups.
MaxConcBlocks == 2

Invocations == {1, 2}
\* One Read at a time / two Reads in flight on the same data source.
Serial == {1}
Concurrent == {1, 2}

Nil == <<>>

Spaces == {"s1"}
BlockNames == {"b1", "b2"}
Ids == {"r1", "r2"}

(***************************************************************************)
(* Framework values (types.String, timetypes.RFC3339, types.List,          *)
(* types.Map): null or known with a value.                                 *)
(***************************************************************************)
StringValue(s) == [null |-> FALSE, v |-> s]
StringNull == [null |-> TRUE, v |-> ""]
\* types.String.ValueString: "" for null.
ValueString(x) == IF x.null THEN "" ELSE x.v
ListValue(es) == [null |-> FALSE, elems |-> es]
ListNull == [null |-> TRUE, elems |-> <<>>]
MapNull == [null |-> TRUE, elems |-> <<>>]
\* types.MapValueFrom(ctx, types.StringType, m) for a map[string]string.
MapValueFrom(m) == [null |-> FALSE, elems |-> [k \in DOMAIN m |-> StringValue(m[k])]]
\* timetypes.RFC3339 holding a timestamp.
RFC3339Value(t) == [null |-> FALSE, v |-> t, type |-> "RFC3339"]
RFC3339Null == [null |-> TRUE, v |-> "", type |-> "RFC3339"]

\* var state reservationDataSourceModel: the zero value of the struct.
ZeroModel ==
  [Space |-> StringNull, Blocks |-> ListNull, Id |-> StringNull,
   Cidr |-> StringNull, Description |-> StringNull, CreatedOn |-> RFC3339Null,
   CreatedBy |-> StringNull, SettledOn |-> RFC3339Null, SettledBy |-> StringNull,
   Status |-> StringNull, Tags |-> MapNull]

(***************************************************************************)
(* strings.Contains and the messages.                                      *)
(***************************************************************************)
Contains(s, sub) ==
  \E i \in 0..(Len(s) - Len(sub)) : SubSeq(s, i + 1, i + Len(sub)) = sub

NotFoundNeedle == <<"Reservation", "not", "found">>

\* Mutant: every error counts as "not found".
IsNotFoundAnyError(err) == TRUE
\* strings.Contains(err.Error(), "Reservation not found")
IsNotFound(err) == Contains(err[1], NotFoundNeedle)

\* Error messages the client may return: two that contain the needle, two that do not.
NotFoundMsgA == <<"Reservation", "not", "found">>
NotFoundMsgB == <<"404", "Reservation", "not", "found", "in", "block">>
FatalMsgA == <<"connection", "refused">>
FatalMsgB == <<"reservation", "not", "found">>

\* ipamclient.Reservation values of the backend.
Reservation1 ==
  [id |-> "r1", cidr |-> "10.0.0.0/24", description |-> "first",
   createdOn |-> "2024-01-01T00:00:00Z", createdBy |-> "alice",
   settledOn |-> "2024-01-02T00:00:00Z", settledBy |-> "bob",
   status |-> "wait", tags |-> ("X-IPAM-RES-ID" :> "r1")]
Reservation2 ==
  [id |-> "r2", cidr |-> "10.1.2.0/28", description |-> "second",
   createdOn |-> "2024-02-01T00:00:00Z", createdBy |-> "carol",
   settledOn |-> "2024-02-02T00:00:00Z", settledBy |-> "dave",
   status |-> "settled", tags |-> ("X-IPAM-RES-ID" :> "r2")]

\* What GetReservation returns: the pair (r, err) of a *Reservation and an error.
Returns(r, err) == [r |-> r, err |-> err]
Responses ==
  { Returns(<<Reservation1>>, Nil), Returns(<<Reservation2>>, Nil),
    Returns(Nil, <<NotFoundMsgA>>), Returns(Nil, <<NotFoundMsgB>>),
    Returns(Nil, <<FatalMsgA>>), Returns(Nil, <<FatalMsgB>>),
    Returns(Nil, Nil),
    Returns(<<Reservation2>>, <<NotFoundMsgA>>),
    Returns(<<Reservation1>>, <<FatalMsgA>>) }
ConcResponses ==
  { Returns(<<Reservation1>>, Nil), Returns(<<Reservation2>>, Nil),
    Returns(Nil, <<NotFoundMsgA>>), Returns(Nil, <<FatalMsgA>>),
    Returns(Nil, Nil) }

\* The arguments of GetReservation(space, block, id).
Args(space, block, id) == [space |-> space, block |-> block, id |-> id]
Keys == { Args(s, b, i) : s \in Spaces, b \in BlockNames, i \in Ids }
\* The reservation id of the concurrent lookups.
ConcId == "r1"

(***************************************************************************)
(* Diagnostics: a summary and a detail.                                    *)
(***************************************************************************)
Diag(summary, detail) == [summary |-> summary, detail |-> detail]
\* The diagnostic of a failed req.Config.Get.
ConfigGetError == Diag(<<"Value", "Conversion", "Error">>, <<"config">>)
\* The diagnostic of a failed state.Blocks.ElementsAs.
ElementsAsError == Diag(<<"Value", "Conversion", "Error">>, <<"unhandled", "null", "value">>)
InvalidConfiguration ==
  Diag(<<"Invalid", "Configuration">>,
       <<"At", "least", "one", "block", "must", "be", "specified", "in", "'blocks'.">>)
\* fmt.Sprintf("space=%s block=%s error=%s", space, block, err.Error())
UnableToRead(space, block, err) ==
  Diag(<<"Unable", "to", "Read", "AzureIpam", "Reservation">>,
       <<"space=", space, "block=", block, "error=">> \o err[1])
\* fmt.Sprintf("Reservation with id '%s' was not found in provided blocks.", id)
ReservationNotFound(id) ==
  Diag(<<"Reservation", "Not", "Found">>,
       <<"Reservation", "with", "id", "'", id, "'", "was", "not", "found",
         "in", "provided", "blocks.">>)
UnexpectedConfigureType ==
  Diag(<<"Unexpected", "Data", "Source", "Configure", "Type">>,
       <<"Expected", "*azureipam.Client,", "got:", "string">>)

(***************************************************************************)
(* The configurations the host hands to Read.  A list element may be null. *)
(***************************************************************************)
Elems == { StringValue(b) : b \in BlockNames } \cup { StringNull }
ListsUpTo(S, n) == UNION { [1..k -> S] : k \in 0..n }
Config(space, blocks, id) == [space |-> space, blocks |-> blocks, id |-> id]
Configs ==
  { Config(s, bs, i) : s \in Spaces, bs \in ListsUpTo(Elems, MaxBlocks), i \in Ids }
ConcConfigs ==
  { Config(s, bs, ConcId) : s \in Spaces,
      bs \in ListsUpTo({ StringValue(b) : b \in BlockNames }, MaxConcBlocks) }

\* Mutant: Get fills the target although it reports an error.
ConfigGetFillsOnError(cfg, ok) ==
  [ZeroModel EXCEPT !.Space = StringValue(cfg.space),
                    !.Blocks = ListValue(cfg.blocks),
                    !.Id = StringValue(cfg.id)]
\* req.Config.Get(ctx, &state): the target is set only when the conversion succeeds.
ConfigGet(cfg, ok) ==
  IF ok
  THEN [ZeroModel EXCEPT !.Space = StringValue(cfg.space),
                         !.Blocks = ListValue(cfg.blocks),
                         !.Id = StringValue(cfg.id)]
  ELSE ZeroModel

\* state.Blocks.ElementsAs(ctx, &blocks, false): a null list gives a nil slice,
\* a null element cannot be held by a string.
ElementsAs(list) ==
  IF list.null THEN [ok |-> TRUE, out |-> <<>>]
  ELSE IF \E i \in 1..Len(list.elems) : list.elems[i].null
       THEN [ok |-> FALSE, out |-> <<>>]
       ELSE [ok |-> TRUE, out |-> [i \in 1..Len(list.elems) |-> list.elems[i].v]]

\* Mutant: the emptiness check is missing.
IsEmptyNever(bs) == FALSE
\* len(blocks) == 0
IsEmpty(bs) == Len(bs) = 0

\* Mutant: the list is walked from its end.
BlockAtReversed(bs, i) == bs[Len(bs) + 1 - i]
\* for _, block := range blocks: the block of iteration i.
BlockAt(bs, i) == bs[i]

\* Mutant: the loop skips a position.
NextIdxSkip(i) == i + 2
\* Mutant: the loop tries the same position again.
NextIdxRetry(i) == IF i = 1 THEN i ELSE i + 1
\* continue: the range loop moves to the next position.
NextIdx(i) == i + 1

\* Mutant: the first not-found error is kept.
KeepFirstErr(old, err) == IF old = Nil THEN err ELSE old
\* lastErr = err
RecordLastErr(old, err) == err

\* Mutant: the reservation is stored in a place every invocation shares.
SetShared(f, p, v) == [q \in DOMAIN f |-> v]
\* reservation = r: the local of invocation p.
SetLocal(f, p, v) == [f EXCEPT ![p] = v]

\* flattenReservation(reservation, &model): the reservation's fields as framework values.
FlattenReservation(r) ==
  [Id |-> StringValue(r.id), Cidr |-> StringValue(r.cidr),
   Description |-> StringValue(r.description),
   CreatedOn |-> RFC3339Value(r.createdOn), CreatedBy |-> StringValue(r.createdBy),
   SettledOn |-> RFC3339Value(r.settledOn), SettledBy |-> StringValue(r.settledBy),
   Status |-> StringValue(r.status), Tags |-> MapValueFrom(r.tags)]

\* Mutant: settled_by is copied from created_by and cidr is left as it was.
MapToStateSlip(st, model, r) ==
  [st EXCEPT !.Id = model.Id, !.Description = model.Description,
             !.CreatedOn = model.CreatedOn, !.CreatedBy = model.CreatedBy,
             !.SettledOn = model.SettledOn, !.SettledBy = model.CreatedBy,
             !.Status = model.Status, !.Tags = MapValueFrom(r.tags)]
\* state.Id = model.Id ... state.Tags, _ = types.MapValueFrom(..., reservation.Tags)
MapToState(st, model, r) ==
  [st EXCEPT !.Id = model.Id, !.Cidr = model.Cidr, !.Description = model.Description,
             !.CreatedOn = model.CreatedOn, !.CreatedBy = model.CreatedBy,
             !.SettledOn = model.SettledOn, !.SettledBy = model.SettledBy,
             !.Status = model.Status, !.Tags = MapValueFrom(r.tags)]

(***************************************************************************)
(* State.                                                                  *)
(***************************************************************************)
VARIABLES
  client,        \* d.client: Nil or <<handle>>
  configureDiags,\* the diagnostics of the last Configure response
  backend,       \* what the IPAM service may answer to each GetReservation call
  pc,            \* per invocation of Read: "idle", "loop", "after", "done"
  req,           \* per invocation: the configuration and whether Config.Get succeeds
  state,         \* per invocation: var state reservationDataSourceModel
  blocks,        \* per invocation: var blocks []string
  idx,           \* per invocation: the position of the range loop
  reservation,   \* per invocation: var reservation *ipamclient.Reservation
  lastErr,       \* per invocation: var lastErr error
  diags,         \* per invocation: resp.Diagnostics
  respState,     \* per invocation: resp.State, Nil until State.Set
  calls          \* per invocation: the GetReservation calls made, with their results

vars == <<client, configureDiags, backend, pc, req, state, blocks, idx,
          reservation, lastErr, diags, respState, calls>>

lookupVars == <<pc, req, state, blocks, idx, reservation, lastErr, diags,
                respState, calls>>

ProviderDatas ==
  { Nil, <<[type |-> "*ipamclient.Client", ref |-> "c1"]>>,
    <<[type |-> "string", ref |-> "c1"]>> }

InitLookups ==
  /\ client = Nil
  /\ configureDiags = <<>>
  /\ pc = [p \in Invocations |-> "idle"]
  /\ req = [p \in Invocations |-> [cfg |-> Config("", <<>>, ""), ok |-> FALSE]]
  /\ state = [p \in Invocations |-> ZeroModel]
  /\ blocks = [p \in Invocations |-> <<>>]
  /\ idx = [p \in Invocations |-> 0]
  /\ reservation = [p \in Invocations |-> Nil]
  /\ lastErr = [p \in Invocations |-> Nil]
  /\ diags = [p \in Invocations |-> <<>>]
  /\ respState = [p \in Invocations |-> Nil]
  /\ calls = [p \in Invocations |-> <<>>]

\* The service may answer anything to any call.
Init ==
  /\ InitLookups
  /\ backend = [k \in Keys |-> Responses]

\* The service answers every call with the same arguments the same way: one
\* answer per block for the id looked up, and no reservation for another id.
InitConc ==
  /\ InitLookups
  /\ \E t \in [BlockNames -> ConcResponses] :
       backend = [k \in Keys |-> IF k.id = ConcId THEN {t[k.block]}
                                 ELSE {Returns(Nil, <<NotFoundMsgA>>)}]

(***************************************************************************)
(* Configure: the host calls it before Read, never while a Read runs.      *)
(***************************************************************************)
Configure ==
  /\ \A p \in Invocations : pc[p] = "idle"
  /\ \E data \in ProviderDatas :
       IF data = Nil
       THEN /\ configureDiags' = <<>>
            /\ UNCHANGED client
       ELSE IF data[1].type # "*ipamclient.Client"
            THEN /\ configureDiags' = <<UnexpectedConfigureType>>
                 /\ UNCHANGED client
            ELSE /\ client' = <<data[1].ref>>
                 /\ configureDiags' = <<>>
  /\ UNCHANGED <<backend, lookupVars>>

(***************************************************************************)
(* Read, lines 110-128: the configuration is read, the blocks converted    *)
(* and the empty list rejected.                                            *)
(***************************************************************************)
BeginRead(p, cfgs, oks) ==
  /\ pc[p] = "idle"
  /\ client # Nil
  /\ \E cfg \in cfgs, ok \in oks :
       LET st == ConfigGet(cfg, ok)
           d0 == IF ok THEN <<>> ELSE <<ConfigGetError>>
           ea == ElementsAs(st.Blocks)
       IN /\ req' = [req EXCEPT ![p] = [cfg |-> cfg, ok |-> ok]]
          /\ state' = [state EXCEPT ![p] = st]
          /\ IF ~ea.ok
             THEN /\ diags' = [diags EXCEPT ![p] = Append(d0, ElementsAsError)]
                  /\ pc' = [pc EXCEPT ![p] = "done"]
                  /\ UNCHANGED <<blocks, idx>>
             ELSE IF IsEmpty(ea.out)
             THEN /\ diags' = [diags EXCEPT ![p] = Append(d0, InvalidConfiguration)]
                  /\ pc' = [pc EXCEPT ![p] = "done"]
                  /\ blocks' = [blocks EXCEPT ![p] = ea.out]
                  /\ UNCHANGED idx
             ELSE /\ diags' = [diags EXCEPT ![p] = d0]
                  /\ blocks' = [blocks EXCEPT ![p] = ea.out]
                  /\ idx' = [idx EXCEPT ![p] = 1]
                  /\ pc' = [pc EXCEPT ![p] = IF 1 <= Len(ea.out) THEN "loop" ELSE "after"]
  /\ UNCHANGED <<client, configureDiags, backend, reservation, lastErr, respState, calls>>

(***************************************************************************)
(* Read, lines 132-152: one iteration of the loop, with its call.          *)
(***************************************************************************)
Iterate(p) ==
  /\ pc[p] = "loop"
  /\ LET space == ValueString(state[p].Space)
         id == ValueString(state[p].Id)
         block == BlockAt(blocks[p], idx[p])
     IN \E ret \in backend[Args(space, block, id)] :
          /\ calls' = [calls EXCEPT ![p] =
                         Append(@, [client |-> client, space |-> space, block |-> block,
                                    id |-> id, r |-> ret.r, err |-> ret.err])]
          /\ IF ret.err # Nil
             THEN IF IsNotFound(ret.err)
                  THEN /\ lastErr' = [lastErr EXCEPT ![p] = RecordLastErr(@, ret.err)]
                       /\ idx' = [idx EXCEPT ![p] = NextIdx(@)]
                       /\ pc' = [pc EXCEPT ![p] =
                                   IF NextIdx(idx[p]) <= Len(blocks[p]) THEN "loop" ELSE "after"]
                       /\ UNCHANGED <<diags, reservation>>
                  ELSE /\ diags' = [diags EXCEPT ![p] = Append(@, UnableToRead(space, block, ret.err))]
                       /\ pc' = [pc EXCEPT ![p] = "done"]
                       /\ UNCHANGED <<lastErr, idx, reservation>>
             ELSE /\ reservation' = SetLocal(reservation, p, ret.r)
                  /\ pc' = [pc EXCEPT ![p] = "after"]
                  /\ UNCHANGED <<lastErr, idx, diags>>
  /\ UNCHANGED <<client, configureDiags, backend, req, state, blocks, respState>>

(***************************************************************************)
(* Read, lines 153-182: the aggregate error, or the state is set.          *)
(***************************************************************************)
Finish(p) ==
  /\ pc[p] = "after"
  /\ IF reservation[p] = Nil
     THEN /\ diags' = [diags EXCEPT ![p] =
                         Append(@, ReservationNotFound(ValueString(state[p].Id)))]
          /\ UNCHANGED <<state, respState>>
     ELSE LET r == reservation[p][1]
              st == MapToState(state[p], FlattenReservation(r), r)
          IN /\ state' = [state EXCEPT ![p] = st]
             /\ respState' = [respState EXCEPT ![p] = <<st>>]
             /\ UNCHANGED diags
  /\ pc' = [pc EXCEPT ![p] = "done"]
  /\ UNCHANGED <<client, configureDiags, backend, req, blocks, idx, reservation,
                 lastErr, calls>>

Next ==
  \/ Configure
  \/ \E p \in Serial : BeginRead(p, Configs, BOOLEAN)
  \/ \E p \in Serial : Iterate(p)
  \/ \E p \in Serial : Finish(p)

Spec == Init /\ [][Next]_vars

NextConc ==
  \/ Configure
  \/ \E p \in Concurrent : BeginRead(p, ConcConfigs, {TRUE})
  \/ \E p \in Concurrent : Iterate(p)
  \/ \E p \in Concurrent : Finish(p)

SpecConc == InitConc /\ [][NextConc]_vars

(***************************************************************************)
(* The lookup run alone, as a function of the configuration and of the     *)
(* service's answers (which InitConc makes unique per call).               *)
(***************************************************************************)
Answer(k) == CHOOSE ret \in backend[k] : TRUE
Outcome(cs, ds, rs) == [calls |-> cs, diags |-> ds, respState |-> rs]

RECURSIVE Scan(_, _, _, _)
Scan(st, bs, i, cs) ==
  IF i > Len(bs)
  THEN Outcome(cs, <<ReservationNotFound(ValueString(st.Id))>>, Nil)
  ELSE LET space == ValueString(st.Space)
           id == ValueString(st.Id)
           ret == Answer(Args(space, bs[i], id))
           made == Append(cs, [client |-> client, space |-> space, block |-> bs[i],
                               id |-> id, r |-> ret.r, err |-> ret.err])
       IN IF ret.err # Nil
          THEN IF Contains(ret.err[1], NotFoundNeedle)
               THEN Scan(st, bs, i + 1, made)
               ELSE Outcome(made, <<UnableToRead(space, bs[i], ret.err)>>, Nil)
          ELSE IF ret.r = Nil
               THEN Outcome(made, <<ReservationNotFound(id)>>, Nil)
               ELSE Outcome(made, <<>>,
                            <<MapToState(st, FlattenReservation(ret.r[1]), ret.r[1])>>)

AloneRead(cfg) ==
  LET st == ConfigGet(cfg, TRUE)
      ea == ElementsAs(st.Blocks)
  IN IF ~ea.ok THEN Outcome(<<>>, <<ElementsAsError>>, Nil)
     ELSE IF Len(ea.out) = 0 THEN Outcome(<<>>, <<InvalidConfiguration>>, Nil)
     ELSE Scan(st, ea.out, 1, <<>>)

(***************************************************************************)
(* Vocabulary of the properties.                                           *)
(***************************************************************************)
HasNeedle(msg) ==
  \E i \in 1..(Len(msg) - 2) :
    msg[i] = "Reservation" /\ msg[i + 1] = "not" /\ msg[i + 2] = "found"
\* The call returned a reservation and no error.
ReturnsReservation(c) == c.err = Nil /\ c.r # Nil
\* The call failed with a "Reservation not found" error.
ReturnsNotFound(c) == c.err # Nil /\ HasNeedle(c.err[1])
\* The call failed with another error.
ReturnsFatal(c) == c.err # Nil /\ ~HasNeedle(c.err[1])
AllNotFound(p) == \A i \in 1..Len(calls[p]) : ReturnsNotFound(calls[p][i])
\* The calls made so far are those of positions 1..n of the list, in order,
\* with the space and the id of the request.
InListOrder(p) ==
  /\ Len(calls[p]) <= Len(blocks[p])
  /\ \A i \in 1..Len(calls[p]) :
       /\ calls[p][i].block = blocks[p][i]
       /\ calls[p][i].space = req[p].cfg.space
       /\ calls[p][i].id = req[p].cfg.id
NotFoundSummary == <<"Reservation", "Not", "Found">>
\* The aggregate error is the only diagnostic, and it names the id.
IsAggregateNotFound(p) ==
  /\ Len(diags[p]) = 1
  /\ diags[p][1].summary = NotFoundSummary
  /\ Contains(diags[p][1].detail, <<"id", "'", req[p].cfg.id, "'">>)
\* The message is part of a diagnostic of the response.
Visible(p, msg) ==
  \E i \in 1..Len(diags[p]) :
    Contains(diags[p][i].detail, msg) \/ Contains(diags[p][i].summary, msg)
IsPrefix(s, t) == Len(s) <= Len(t) /\ SubSeq(t, 1, Len(s)) = s
Last(s) == s[Len(s)]
CallsOf(p, b) == { i \in 1..Len(calls[p]) : calls[p][i].block = b }
PositionsOf(p, b) == { i \in 1..Len(blocks[p]) : blocks[p][i] = b }

(***************************************************************************)
(* C1: when the block at position k returns a reservation and every block  *)
(* before it returned "Reservation not found", exactly k calls are made,   *)
(* those of positions 1..k in list order, none follows, and the result of  *)
(* the lookup is the reservation of block k.                               *)
(***************************************************************************)
C1_FirstMatchWins ==
  \A p \in Invocations : \A k \in 1..Len(calls[p]) :
    (/\ ReturnsReservation(calls[p][k])
     /\ \A j \in 1..(k - 1) : ReturnsNotFound(calls[p][j]))
    => /\ k = Len(calls[p])
       /\ InListOrder(p)
       /\ pc[p] \in {"after", "done"}
       /\ reservation[p] = calls[p][k].r
       /\ pc[p] = "done" =>
            /\ diags[p] = <<>>
            /\ respState[p] # Nil
            /\ ValueString(respState[p][1].Id) = calls[p][k].r[1].id
            /\ ValueString(respState[p][1].Cidr) = calls[p][k].r[1].cidr

C1_Witness ==
  \E p \in Invocations :
    /\ pc[p] = "done" /\ Len(blocks[p]) = 3 /\ Len(calls[p]) = 2
    /\ blocks[p][1] # blocks[p][2]
    /\ ReturnsNotFound(calls[p][1]) /\ ReturnsReservation(calls[p][2])
    /\ respState[p] # Nil

(***************************************************************************)
(* C2: when the call for block j fails with an error that does not contain *)
(* "Reservation not found" (the earlier blocks having returned not-found), *)
(* the lookup ends at once with the one read failure that carries the      *)
(* error's message, the space and the name of block j; no later block is   *)
(* called and no state is written.                                         *)
(***************************************************************************)
C2_FailFast ==
  \A p \in Invocations : \A j \in 1..Len(calls[p]) :
    (/\ ReturnsFatal(calls[p][j])
     /\ \A i \in 1..(j - 1) : ReturnsNotFound(calls[p][i]))
    => /\ j = Len(calls[p])
       /\ pc[p] = "done"
       /\ InListOrder(p)
       /\ respState[p] = Nil
       /\ Len(diags[p]) = 1
       /\ diags[p][1].summary = <<"Unable", "to", "Read", "AzureIpam", "Reservation">>
       /\ diags[p][1].detail =
            <<"space=", req[p].cfg.space, "block=", blocks[p][j], "error=">>
              \o calls[p][j].err[1]

C2_Witness ==
  \E p \in Invocations :
    /\ pc[p] = "done" /\ Len(blocks[p]) = 3 /\ Len(calls[p]) = 2
    /\ ReturnsNotFound(calls[p][1]) /\ ReturnsFatal(calls[p][2])
    /\ calls[p][2].err = <<FatalMsgB>>

(***************************************************************************)
(* C3: a lookup whose block list is empty ends with the configuration      *)
(* error "At least one block must be specified" and makes no call.         *)
(***************************************************************************)
C3_EmptyBlocksRejected ==
  \A p \in Invocations :
    (/\ pc[p] # "idle"
     /\ ElementsAs(state[p].Blocks).ok
     /\ ElementsAs(state[p].Blocks).out = <<>>)
    => /\ pc[p] = "done"
       /\ calls[p] = <<>>
       /\ respState[p] = Nil
       /\ Last(diags[p]) = InvalidConfiguration
       /\ req[p].ok => diags[p] = <<InvalidConfiguration>>

C3_Witness ==
  \E p \in Invocations :
    /\ pc[p] = "done" /\ req[p].ok /\ req[p].cfg.blocks = <<>>
    /\ diags[p] = <<InvalidConfiguration>> /\ calls[p] = <<>>

(***************************************************************************)
(* C4: a lookup with a non-empty block list in which every call returns    *)
(* "Reservation not found" ends with the single aggregate "Reservation Not *)
(* Found" error naming the id, after one call per position of the list, in *)
(* list order.                                                             *)
(***************************************************************************)
C4_AggregateNotFound ==
  \A p \in Invocations :
    (pc[p] = "done" /\ blocks[p] # <<>> /\ AllNotFound(p))
    => /\ IsAggregateNotFound(p)
       /\ respState[p] = Nil
       /\ Len(calls[p]) = Len(blocks[p])
       /\ InListOrder(p)

C4_Witness ==
  \E p \in Invocations :
    /\ pc[p] = "done" /\ blocks[p] = <<"b2", "b1", "b2">>
    /\ Len(calls[p]) = 3 /\ AllNotFound(p) /\ IsAggregateNotFound(p)

(***************************************************************************)
(* C5: on a Found outcome every field of the output record (id, cidr,      *)
(* description, created_on, created_by, settled_on, settled_by, status,    *)
(* tags) has the value of the same field of the reservation that the       *)
(* matching block returned.                                                *)
(***************************************************************************)
C5_ProjectionFaithful ==
  \A p \in Invocations :
    respState[p] # Nil =>
      /\ calls[p] # <<>>
      /\ ReturnsReservation(Last(calls[p]))
      /\ LET o == respState[p][1]
             r == Last(calls[p]).r[1]
         IN /\ ~o.Id.null /\ o.Id.v = r.id
            /\ ~o.Cidr.null /\ o.Cidr.v = r.cidr
            /\ ~o.Description.null /\ o.Description.v = r.description
            /\ ~o.CreatedOn.null /\ o.CreatedOn.v = r.createdOn
            /\ ~o.CreatedBy.null /\ o.CreatedBy.v = r.createdBy
            /\ ~o.SettledOn.null /\ o.SettledOn.v = r.settledOn
            /\ ~o.SettledBy.null /\ o.SettledBy.v = r.settledBy
            /\ ~o.Status.null /\ o.Status.v = r.status
            /\ ~o.Tags.null
            /\ DOMAIN o.Tags.elems = DOMAIN r.tags
            /\ \A k \in DOMAIN r.tags :
                 ~o.Tags.elems[k].null /\ o.Tags.elems[k].v = r.tags[k]

\* Found in the second block, with an id other than the one asked for, after a
\* first block whose not-found answer carried another reservation.
C5_Witness ==
  \E p \in Invocations :
    /\ respState[p] # Nil /\ Len(calls[p]) = 2
    /\ calls[p][1].r = <<Reservation2>>
    /\ calls[p][2].r = <<Reservation1>>
    /\ req[p].cfg.id = "r2"
    /\ respState[p][1].Cidr.v = "10.0.0.0/24"

(***************************************************************************)
(* C6, as stated: when the loop completes with no match, the outcome       *)
(* carries the not-found error of the last block of the list.              *)
(***************************************************************************)
C6_LastErrorVisible ==
  \A p \in Invocations :
    (pc[p] = "done" /\ blocks[p] # <<>> /\ AllNotFound(p))
    => Visible(p, Last(calls[p]).err[1])

(***************************************************************************)
(* C6, amended: when the loop completes with no match, lastErr holds the   *)
(* error of the last block of the list, and the outcome is only the        *)
(* aggregate error built from the id: no block's not-found error, the last *)
(* block's included, is visible to the caller.                             *)
(***************************************************************************)
C6_LastErrorKeptNotReported ==
  \A p \in Invocations :
    (pc[p] = "done" /\ blocks[p] # <<>> /\ AllNotFound(p))
    => /\ lastErr[p] = Last(calls[p]).err
       /\ IsAggregateNotFound(p)
       /\ \A i \in 1..Len(calls[p]) : ~Visible(p, calls[p][i].err[1])

C6_Witness ==
  \E p \in Invocations :
    /\ pc[p] = "done" /\ Len(blocks[p]) = 2 /\ Len(calls[p]) = 2
    /\ calls[p][1].err = <<NotFoundMsgA>> /\ calls[p][2].err = <<NotFoundMsgB>>
    /\ lastErr[p] = <<NotFoundMsgB>>

(***************************************************************************)
(* C7, as stated: within one lookup no block name is passed to the backend *)
(* more than once, and the calls never outnumber the list.                 *)
(***************************************************************************)
C7_OncePerBlockName ==
  \A p \in Invocations :
    /\ Len(calls[p]) <= Len(blocks[p])
    /\ \A b \in BlockNames : Cardinality(CallsOf(p, b)) <= 1

(***************************************************************************)
(* C7, amended: within one lookup each position of the block list is       *)
(* called at most once, in list order, so a block name is called at most   *)
(* as many times as the list names it, and the calls never outnumber the   *)
(* list.                                                                   *)
(***************************************************************************)
C7_OncePerPosition ==
  \A p \in Invocations :
    /\ InListOrder(p)
    /\ \A b \in BlockNames :
         Cardinality(CallsOf(p, b)) <= Cardinality(PositionsOf(p, b))

C7_Witness ==
  \E p \in Invocations :
    /\ pc[p] = "done" /\ blocks[p] = <<"b1", "b1">>
    /\ Cardinality(CallsOf(p, "b1")) = 2

(***************************************************************************)
(* C8: two lookups in flight on the same data source do not affect each    *)
(* other: at every moment the calls a lookup has made are a prefix of the  *)
(* calls it makes when run alone, a finished lookup has made exactly those *)
(* calls and has the same diagnostics and the same state, and no step of a *)
(* lookup changes the client handle.                                       *)
(***************************************************************************)
C8_NoInterference ==
  \A p \in Invocations :
    pc[p] # "idle" =>
      LET alone == AloneRead(req[p].cfg)
      IN /\ IsPrefix(calls[p], alone.calls)
         /\ pc[p] = "done" =>
              /\ calls[p] = alone.calls
              /\ diags[p] = alone.diags
              /\ respState[p] = alone.respState

C8_ClientUntouched ==
  [][(\E p \in Invocations : pc'[p] # pc[p] \/ calls'[p] # calls[p]) => client' = client]_vars

C8_NoSharedState == []C8_NoInterference /\ C8_ClientUntouched

\* Both lookups are in the loop, each after a first call, on different lists.
C8_Witness ==
  /\ pc[1] = "loop" /\ pc[2] = "loop"
  /\ Len(calls[1]) = 1 /\ Len(calls[2]) = 1
  /\ blocks[1] = <<"b1", "b2">> /\ blocks[2] = <<"b2", "b1">>

(***************************************************************************)
(* C9: the response state is set only by a Read that recorded no error     *)
(* diagnostic; a Read whose Config.Get recorded an error makes no call and *)
(* sets no state; and every Read that ends with a diagnostic leaves the    *)
(* state unset.                                                            *)
(***************************************************************************)
C9_StateOnlyWithoutError ==
  \A p \in Invocations :
    /\ respState[p] # Nil => diags[p] = <<>> /\ pc[p] = "done"
    /\ (pc[p] # "idle" /\ ~req[p].ok) =>
         /\ calls[p] = <<>> /\ respState[p] = Nil /\ pc[p] = "done"
         /\ diags[p][1] = ConfigGetError
    /\ (pc[p] = "done" /\ diags[p] # <<>>) => respState[p] = Nil
    /\ (pc[p] = "done" /\ diags[p] = <<>>) => respState[p] # Nil

C9_Witness ==
  \E p \in Invocations :
    /\ pc[p] = "done" /\ ~req[p].ok
    /\ req[p].cfg.blocks = <<StringValue("b1"), StringValue("b2")>>
    /\ diags[p][1] = ConfigGetError /\ calls[p] = <<>> /\ respState[p] = Nil

(***************************************************************************)
(* C10: the aggregate "Reservation Not Found" error is reported only after *)
(* every block of the list was called and each call returned a             *)
(* "Reservation not found" error.                                          *)
(***************************************************************************)
C10_NotFoundOnlyAfterAllBlocks ==
  \A p \in Invocations :
    (\E i \in 1..Len(diags[p]) : diags[p][i].summary = NotFoundSummary)
    => /\ Len(calls[p]) = Len(blocks[p])
       /\ AllNotFound(p)

====
